---- MODULE Spec2Model ----
(***************************************************************************)
(* A model of the route guide service of                                   *)
(* tonic-examples/src/routeguide/server.rs: the immutable feature catalog, *)
(* the range scan (list_features), the route recording (record_route) and  *)
(* the chat (route_chat) over the shared, lock-protected note map.         *)
(***************************************************************************)
EXTENDS Integers, Sequences, FiniteSets, TLC

(***************************************************************************)
(* Bounds of the model.                                                    *)
(***************************************************************************)
\* longest catalog handed to a range scan
MaxScanFeatures == 5

\* longest catalog of a route recording
MaxRouteFeatures == 2

\* number of concurrent record_route calls
NumRecorders == 1

\* inbound items delivered to the record_route calls, all calls together
MaxPoints == 3

\* largest number of whole seconds a route recording lasts
MaxElapsed == 1

\* longest catalog handed to an exact lookup
MaxLookupFeatures == 3

\* number of concurrent route_chat calls
NumSessions == 2

\* inbound items delivered to the route_chat calls, all calls together
MaxNotes == 3

\* inbound items of all route recordings of a run of the whole service
MaxServicePoints == 2

\* inbound notes of all chat sessions of a run of the whole service
MaxServiceNotes == 1

\* const CORD_FACTOR: f64 = 1e7 (a coordinate is degrees * 10^7)
CORD_FACTOR == 10000000

\* let (mut tx, rx) = mpsc::channel(4)
ChannelCapacity == 4

(***************************************************************************)
(* Values.  Option<T> is a sequence of length at most one.                 *)
(***************************************************************************)
None == << >>

Some(x) == << x >>

\* routeguide::Point { latitude, longitude }
Point(lat, lng) == [latitude |-> lat, longitude |-> lng]

\* the coordinates of the model: 0 and 1 degree, scaled
Coordinates == {0, CORD_FACTOR}

Points == {Point(lat, lng) : lat \in Coordinates, lng \in Coordinates}

\* routeguide::Feature { name, location }; a name is a number, 0 is ""
Feature(name, location) == [name |-> name, location |-> location]

\* routeguide::Rectangle { lo, hi }
Rectangle(lo, hi) == [lo |-> lo, hi |-> hi]

Min(a, b) == IF a <= b THEN a ELSE b

Max(a, b) == IF a >= b THEN a ELSE b

\* the sequences over S of length at most n
SeqsUpTo(S, n) == UNION {[1..k -> S] : k \in 0..n}

\* a catalog whose i-th feature is named i and has the i-th location
Catalog(locations) == [i \in 1..Len(locations) |-> Feature(i, locations[i])]

(***************************************************************************)
(* in_range: the unwraps of rect.lo and rect.hi panic on a missing corner; *)
(* with both present the test is the normalized, inclusive box test.       *)
(***************************************************************************)
in_range_panics(rect) == rect.lo = None \/ rect.hi = None

in_range_lat_only(point, rect) ==
    LET lo == rect.lo[1]
        hi == rect.hi[1]
        top == Max(lo.latitude, hi.latitude)
        bottom == Min(lo.latitude, hi.latitude)
    IN  point.latitude >= bottom /\ point.latitude <= top

in_range_unordered(point, rect) ==
    LET lo == rect.lo[1]
        hi == rect.hi[1]
    IN  /\ point.longitude >= lo.longitude
        /\ point.longitude <= hi.longitude
        /\ point.latitude >= lo.latitude
        /\ point.latitude <= hi.latitude

in_range(point, rect) ==
    LET lo == rect.lo[1]
        hi == rect.hi[1]
        left == Min(lo.longitude, hi.longitude)
        right == Max(lo.longitude, hi.longitude)
        top == Max(lo.latitude, hi.latitude)
        bottom == Min(lo.latitude, hi.latitude)
    IN  /\ point.longitude >= left
        /\ point.longitude <= right
        /\ point.latitude >= bottom
        /\ point.latitude <= top

(***************************************************************************)
(* State.                                                                  *)
(***************************************************************************)
VARIABLES
    features,    \* State.features: the catalog, a sequence of Feature
    lf_pc,       \* list_features: "idle", "scanning", "done" or "panicked"
    request,     \* list_features: the Rectangle of the request
    lf_i,        \* list_features: index of the feature the thread is at
    chan,        \* the items buffered in the mpsc channel between tx and rx
    rx_out,      \* the features the consumer has received from rx
    rx_closed,   \* the consumer has seen the end of the response stream
    panic_at,    \* the call the scanning thread panicked in, None if none
    rr_pc,       \* record_route, per call: "idle", "streaming" or "returned"
    rr_in,       \* record_route, per call: the inbound items taken so far
    summary,     \* record_route, per call: the RouteSummary being built
    last_point,  \* record_route, per call: Option<Point>
    rr_out,      \* record_route, per call: the results returned to the caller
    notes,       \* State.notes: the map from Point to the list of RouteNote
    lock,        \* the Lock around State.notes: Some(holder) or None
    rc_pc,       \* route_chat, per call: "idle", "next", "lock", "yield",
                 \*   "stalled", "closed", "panicked" or "cancelled"
    rc_in,       \* route_chat, per call: the inbound items taken so far
    rc_note,     \* route_chat, per call: the note being handled, Option
    rc_i,        \* route_chat, per call: position of the replay in the list
    rc_out,      \* route_chat, per call: the items of the outbound stream
    rc_mark,     \* route_chat, per call and push: length of rc_out at the push
    rc_snap,     \* route_chat, per call and push: the list right after the push
    gf_req,      \* get_feature: the Point of the last request, Option
    gf_out,      \* get_feature: the result of the last request, Option
    ir_point,    \* in_range: the point of the last call
    ir_rect,     \* in_range: the rectangle of the last call
    ir_out       \* in_range: the outcome of the last call, Option

lf_vars == <<lf_pc, request, lf_i, chan, rx_out, rx_closed, panic_at>>

rr_vars == <<rr_pc, rr_in, summary, last_point, rr_out>>

rc_vars == <<notes, lock, rc_pc, rc_in, rc_note, rc_i, rc_out, rc_mark, rc_snap>>

pf_vars == <<gf_req, gf_out, ir_point, ir_rect, ir_out>>

vars == <<features, lf_vars, rr_vars, rc_vars, pf_vars>>

(***************************************************************************)
(* list_features (range scan, server streaming).                           *)
(***************************************************************************)
\* the locations and rectangle corners of the scans of the model
ScanPoints == {Point(0, 0), Point(0, CORD_FACTOR), Point(CORD_FACTOR, CORD_FACTOR)}

ScanCatalogs == {Catalog(l) : l \in SeqsUpTo({None} \cup {Some(p) : p \in ScanPoints}, MaxScanFeatures)}

ScanRectangles ==
    {Rectangle(lo, hi) : lo \in {None} \cup {Some(p) : p \in ScanPoints},
                         hi \in {None} \cup {Some(p) : p \in ScanPoints}}

\* Sender::try_send succeeds while the channel holds fewer items than its capacity
try_send_ok(buffer) == Len(buffer) < ChannelCapacity

lf_Init ==
    /\ lf_pc = "idle"
    /\ request = Rectangle(None, None)
    /\ lf_i = 1
    /\ chan = << >>
    /\ rx_out = << >>
    /\ rx_closed = FALSE
    /\ panic_at = None

\* the handler: creates the channel, spawns the thread, returns rx
list_features(rect) ==
    /\ lf_pc = "idle"
    /\ lf_pc' = "scanning"
    /\ request' = rect
    /\ lf_i' = 1
    /\ chan' = << >>
    /\ UNCHANGED <<features, pf_vars, rx_out, rx_closed, panic_at, rr_vars, rc_vars>>

thread_panic(where) ==
    /\ lf_pc' = "panicked"
    /\ panic_at' = Some(where)
    /\ UNCHANGED <<features, pf_vars, request, lf_i, chan, rx_out, rx_closed, rr_vars, rc_vars>>

\* one iteration of the thread's loop over the catalog
thread_scan ==
    /\ lf_pc = "scanning"
    /\ lf_i <= Len(features)
    /\ LET feature == features[lf_i]
       IN  IF feature.location = None
             THEN thread_panic("location.unwrap")
           ELSE IF in_range_panics(request)
             THEN thread_panic("rect.unwrap")
           ELSE IF in_range(feature.location[1], request)
             THEN IF try_send_ok(chan)
                    THEN /\ chan' = Append(chan, feature)
                         /\ lf_i' = lf_i + 1
                         /\ UNCHANGED <<features, pf_vars, lf_pc, request, rx_out, rx_closed, panic_at, rr_vars, rc_vars>>
                    ELSE thread_panic("try_send.unwrap")
           ELSE /\ lf_i' = lf_i + 1
                /\ UNCHANGED <<features, pf_vars, lf_pc, request, chan, rx_out, rx_closed, panic_at, rr_vars, rc_vars>>

\* the loop is over: the thread ends and tx is dropped
thread_done ==
    /\ lf_pc = "scanning"
    /\ lf_i > Len(features)
    /\ lf_pc' = "done"
    /\ UNCHANGED <<features, pf_vars, request, lf_i, chan, rx_out, rx_closed, panic_at, rr_vars, rc_vars>>

\* the transport takes the next item of the response stream
rx_recv ==
    /\ lf_pc # "idle"
    /\ chan # << >>
    /\ rx_out' = Append(rx_out, Head(chan))
    /\ chan' = Tail(chan)
    /\ UNCHANGED <<features, pf_vars, lf_pc, request, lf_i, rx_closed, panic_at, rr_vars, rc_vars>>

\* the channel is empty and tx is gone: the response stream ends
rx_end ==
    /\ lf_pc \in {"done", "panicked"}
    /\ chan = << >>
    /\ ~rx_closed
    /\ rx_closed' = TRUE
    /\ UNCHANGED <<features, pf_vars, lf_pc, request, lf_i, chan, rx_out, panic_at, rr_vars, rc_vars>>

(***************************************************************************)
(* record_route (route recording, client streaming).                       *)
(***************************************************************************)
Recorders == 1..NumRecorders

\* tonic::Status values an inbound stream can fail with
Statuses == {"Cancelled", "Unavailable"}

\* Result<T, Status>
Ok(x) == [tag |-> "Ok", value |-> x]

Err(status) == [tag |-> "Err", status |-> status]

RoutePoints == {Point(0, 0), Point(0, CORD_FACTOR), Point(CORD_FACTOR, CORD_FACTOR)}

RouteItems == {Ok(p) : p \in RoutePoints} \cup {Err(st) : st \in Statuses}

RouteCatalogs == {Catalog(l) : l \in SeqsUpTo({None} \cup {Some(p) : p \in RoutePoints}, MaxRouteFeatures)}

\* (R * c) as i32 of the haversine formula, tabulated on Points: 111194 m
\* along a meridian or the equator, 111177 m along the parallel of 1 degree,
\* 157249 m across both
calc_distance(p1, p2) ==
    IF p1.latitude # p2.latitude
      THEN IF p1.longitude # p2.longitude THEN 157249 ELSE 111194
    ELSE IF p1.longitude # p2.longitude
      THEN IF p1.latitude = 0 THEN 111194 ELSE 111177
    ELSE 0

\* RouteSummary::default()
default_summary == [point_count |-> 0, feature_count |-> 0, distance |-> 0, elapsed_time |-> 0]

inc_point_count_assign(s) == [s EXCEPT !.point_count = 1]

\* summary.point_count += 1
inc_point_count(s) == [s EXCEPT !.point_count = @ + 1]

count_features_first(point) ==
    IF \E i \in DOMAIN features : features[i].location = Some(point) THEN 1 ELSE 0

count_features_hub(point) ==
    Cardinality({i \in DOMAIN features : features[i].location = Some(point)})
        + (IF point \in DOMAIN notes THEN Len(notes[point]) ELSE 0)

\* the loop over the catalog: one increment per feature located at the point
count_features(point) ==
    Cardinality({i \in DOMAIN features : features[i].location = Some(point)})

add_distance_assign(s, last, point) ==
    IF last = None THEN s
    ELSE [s EXCEPT !.distance = calc_distance(last[1], point)]

\* if let Some(ref last_point) = last_point { summary.distance += ... }
add_distance(s, last, point) ==
    IF last = None THEN s
    ELSE [s EXCEPT !.distance = @ + calc_distance(last[1], point)]

on_err_summary(s, status) == Ok(s)

\* let point = point?; an Err item returns from the handler with that error
on_err(s, status) == Err(status)

RECURSIVE TotalLen(_, _)
TotalLen(f, S) ==
    IF S = {} THEN 0
    ELSE LET x == CHOOSE y \in S : TRUE
         IN  Len(f[x]) + TotalLen(f, S \ {x})

rr_Init ==
    /\ rr_pc = [r \in Recorders |-> "idle"]
    /\ rr_in = [r \in Recorders |-> << >>]
    /\ summary = [r \in Recorders |-> default_summary]
    /\ last_point = [r \in Recorders |-> None]
    /\ rr_out = [r \in Recorders |-> << >>]

\* the handler up to its first stream.next().await
record_route(r) ==
    /\ rr_pc[r] = "idle"
    /\ rr_pc' = [rr_pc EXCEPT ![r] = "streaming"]
    /\ summary' = [summary EXCEPT ![r] = default_summary]
    /\ last_point' = [last_point EXCEPT ![r] = None]
    /\ UNCHANGED <<features, pf_vars, lf_vars, rc_vars, rr_in, rr_out>>

\* stream.next() yields Some(item): one iteration of the while loop
rr_next(r, item) ==
    /\ rr_pc[r] = "streaming"
    /\ TotalLen(rr_in, Recorders) < MaxPoints
    /\ rr_in' = [rr_in EXCEPT ![r] = Append(@, item)]
    /\ IF item.tag = "Err"
         THEN /\ rr_out' = [rr_out EXCEPT ![r] = Append(@, on_err(summary[r], item.status))]
              /\ rr_pc' = [rr_pc EXCEPT ![r] = "returned"]
              /\ UNCHANGED <<summary, last_point>>
         ELSE LET point == item.value
                  counted == inc_point_count(summary[r])
                  matched == [counted EXCEPT !.feature_count = @ + count_features(point)]
              IN  /\ summary' = [summary EXCEPT ![r] = add_distance(matched, last_point[r], point)]
                  /\ last_point' = [last_point EXCEPT ![r] = Some(point)]
                  /\ UNCHANGED <<rr_pc, rr_out>>
    /\ UNCHANGED <<features, pf_vars, lf_vars, rc_vars>>

\* stream.next() yields None: the elapsed time is set and the summary returned
rr_end(r, secs) ==
    /\ rr_pc[r] = "streaming"
    /\ summary' = [summary EXCEPT ![r].elapsed_time = secs]
    /\ rr_out' = [rr_out EXCEPT ![r] = Append(@, Ok(summary'[r]))]
    /\ rr_pc' = [rr_pc EXCEPT ![r] = "returned"]
    /\ UNCHANGED <<features, pf_vars, lf_vars, rc_vars, rr_in, last_point>>

(***************************************************************************)
(* route_chat (chat, bidirectional streaming).                             *)
(***************************************************************************)
Sessions == 1..NumSessions

ChatPoints == {Point(0, 0), Point(0, CORD_FACTOR)}

\* routeguide::RouteNote { location, message }
RouteNote(location, message) == [location |-> location, message |-> message]

\* the items the inbound stream of session s can yield as its k-th item; the
\* message of a note names its session and its position
ChatItems(s, k) ==
    {Ok(RouteNote(l, <<s, k>>)) : l \in {None} \cup {Some(p) : p \in ChatPoints}}
        \cup {Err(st) : st \in Statuses}

\* the catalog of the chat runs
ChatCatalog == Catalog(<<Some(Point(0, 0)), None>>)

lock_free_always(l) == TRUE

\* state.notes.lock().await completes when no guard is alive
lock_free(l) == l = None

entry_insert(map, location) == (location :> << >>) @@ map

\* notes.entry(location).or_insert(vec![])
entry_or_insert(map, location) ==
    IF location \in DOMAIN map THEN map ELSE (location :> << >>) @@ map

push_front(map, location, note) ==
    [entry_or_insert(map, location) EXCEPT ![location] = << note >> \o @]

\* notes.push(note) on the entry of the location
push(map, location, note) ==
    [entry_or_insert(map, location) EXCEPT ![location] = Append(@, note)]

replay_done_first(list, i) == i > 1

\* for note in notes: the iteration is over
replay_done(list, i) == i > Len(list)

pc_after_err_continue == "next"

\* let note = note?; in try_stream!: the Err is yielded and the stream ends
pc_after_err == "closed"

drop_guard_leak(l, s) == l

\* the stream is dropped: a guard it holds is dropped with it
drop_guard(l, s) == IF l = Some(s) THEN None ELSE l

rc_Init ==
    /\ notes = << >>
    /\ lock = None
    /\ rc_pc = [s \in Sessions |-> "idle"]
    /\ rc_in = [s \in Sessions |-> << >>]
    /\ rc_note = [s \in Sessions |-> None]
    /\ rc_i = [s \in Sessions |-> 1]
    /\ rc_out = [s \in Sessions |-> << >>]
    /\ rc_mark = [s \in Sessions |-> << >>]
    /\ rc_snap = [s \in Sessions |-> << >>]

\* the handler: builds the output stream and returns it
route_chat(s) ==
    /\ rc_pc[s] = "idle"
    /\ rc_pc' = [rc_pc EXCEPT ![s] = "next"]
    /\ UNCHANGED <<features, pf_vars, lf_vars, rr_vars, notes, lock, rc_in, rc_note, rc_i, rc_out, rc_mark, rc_snap>>

\* stream.next() yields Some(item): note?, then location.unwrap()
rc_next(s, item) ==
    /\ rc_pc[s] = "next"
    /\ TotalLen(rc_in, Sessions) < MaxNotes
    /\ rc_in' = [rc_in EXCEPT ![s] = Append(@, item)]
    /\ IF item.tag = "Err"
         THEN /\ rc_out' = [rc_out EXCEPT ![s] = Append(@, Err(item.status))]
              /\ rc_pc' = [rc_pc EXCEPT ![s] = pc_after_err]
              /\ UNCHANGED rc_note
         ELSE IF item.value.location = None
           THEN /\ rc_pc' = [rc_pc EXCEPT ![s] = "panicked"]
                /\ UNCHANGED <<rc_out, rc_note>>
         ELSE /\ rc_note' = [rc_note EXCEPT ![s] = Some(item.value)]
              /\ rc_pc' = [rc_pc EXCEPT ![s] = "lock"]
              /\ UNCHANGED rc_out
    /\ UNCHANGED <<features, pf_vars, lf_vars, rr_vars, notes, lock, rc_i, rc_mark, rc_snap>>

\* stream.next() yields None: the loop and the output stream end
rc_end(s) ==
    /\ rc_pc[s] = "next"
    /\ rc_pc' = [rc_pc EXCEPT ![s] = "closed"]
    /\ UNCHANGED <<features, pf_vars, lf_vars, rr_vars, notes, lock, rc_in, rc_note, rc_i, rc_out, rc_mark, rc_snap>>

\* the lock is acquired; entry, or_insert and push run under the guard
rc_lock(s) ==
    /\ rc_pc[s] = "lock"
    /\ lock_free(lock)
    /\ lock' = Some(s)
    /\ LET note == rc_note[s][1]
           location == note.location[1]
       IN  /\ notes' = push(notes, location, note)
           /\ rc_snap' = [rc_snap EXCEPT ![s] = Append(@, notes'[location])]
    /\ rc_mark' = [rc_mark EXCEPT ![s] = Append(@, Len(rc_out[s]))]
    /\ rc_i' = [rc_i EXCEPT ![s] = 1]
    /\ rc_pc' = [rc_pc EXCEPT ![s] = "yield"]
    /\ UNCHANGED <<features, pf_vars, lf_vars, rr_vars, rc_in, rc_note, rc_out>>

\* yield note.clone(): the next note of the list goes to the outbound stream
rc_yield(s) ==
    /\ rc_pc[s] = "yield"
    /\ LET list == notes[rc_note[s][1].location[1]]
       IN  /\ ~replay_done(list, rc_i[s])
           /\ rc_i[s] <= Len(list)
           /\ rc_out' = [rc_out EXCEPT ![s] = Append(@, Ok(list[rc_i[s]]))]
    /\ rc_i' = [rc_i EXCEPT ![s] = @ + 1]
    /\ UNCHANGED <<features, pf_vars, lf_vars, rr_vars, notes, lock, rc_pc, rc_in, rc_note, rc_mark, rc_snap>>

\* the iteration is over: the guard is dropped, back to stream.next()
rc_unlock(s) ==
    /\ rc_pc[s] = "yield"
    /\ replay_done(notes[rc_note[s][1].location[1]], rc_i[s])
    /\ lock' = None
    /\ rc_note' = [rc_note EXCEPT ![s] = None]
    /\ rc_pc' = [rc_pc EXCEPT ![s] = "next"]
    /\ UNCHANGED <<features, pf_vars, lf_vars, rr_vars, notes, rc_in, rc_i, rc_out, rc_mark, rc_snap>>

\* the client stops taking items while a replay is under way: the stream
\* stays suspended at its yield, the guard alive
client_stall(s) ==
    /\ rc_pc[s] = "yield"
    /\ rc_pc' = [rc_pc EXCEPT ![s] = "stalled"]
    /\ UNCHANGED <<features, pf_vars, lf_vars, rr_vars, notes, lock, rc_in, rc_note, rc_i, rc_out, rc_mark, rc_snap>>

\* the transport cancels the call: the output stream is dropped where it is
\* suspended, at stream.next(), at lock() or at a yield
rc_cancel(s) ==
    /\ rc_pc[s] \in {"next", "lock", "yield", "stalled"}
    /\ rc_pc' = [rc_pc EXCEPT ![s] = "cancelled"]
    /\ lock' = drop_guard(lock, s)
    /\ UNCHANGED <<features, pf_vars, lf_vars, rr_vars, notes, rc_in, rc_note, rc_i, rc_out, rc_mark, rc_snap>>

(***************************************************************************)
(* get_feature (exact lookup, unary) and in_range called on its own.       *)
(***************************************************************************)
LookupCatalogs == {Catalog(l) : l \in SeqsUpTo({None} \cup {Some(p) : p \in Points}, MaxLookupFeatures)}

\* Feature { name: "".to_string(), location: None }
empty_feature == Feature(0, None)

\* the loop of get_feature from feature i on, keeping the last match
RECURSIVE find_last(_, _, _)
find_last(i, point, found) ==
    IF i > Len(features) THEN found
    ELSE IF features[i].location = Some(point) THEN find_last(i + 1, point, features[i])
    ELSE find_last(i + 1, point, found)

\* the loop of get_feature from feature i on: the first match is returned
RECURSIVE find_first(_, _)
find_first(i, point) ==
    IF i > Len(features) THEN empty_feature
    ELSE IF features[i].location = Some(point) THEN features[i]
    ELSE find_first(i + 1, point)

lookup_last(point) == Ok(find_last(1, point, empty_feature))

\* the response of get_feature: Ok on both paths
lookup(point) == Ok(find_first(1, point))

\* the coordinates, points and rectangles in_range is called with on its own
RangeCoordinates == {0 - CORD_FACTOR, 0, CORD_FACTOR}

RangePoints == {Point(lat, lng) : lat \in RangeCoordinates, lng \in RangeCoordinates}

RangeRectangles ==
    {Rectangle(lo, hi) : lo \in {None} \cup {Some(p) : p \in RangePoints},
                         hi \in {None} \cup {Some(p) : p \in RangePoints}}

\* the outcome of a call of in_range: a panic of an unwrap, or the bool
in_range_outcome(point, rect) ==
    IF in_range_panics(rect) THEN [panicked |-> TRUE]
    ELSE [panicked |-> FALSE, value |-> in_range(point, rect)]

pf_Init ==
    /\ gf_req = None
    /\ gf_out = None
    /\ ir_point = Point(0, 0)
    /\ ir_rect = Rectangle(None, None)
    /\ ir_out = None

get_feature_remove(point) ==
    /\ gf_req' = Some(point)
    /\ gf_out' = Some(lookup(point))
    /\ features' = SelectSeq(features, LAMBDA f : f.location # Some(point))
    /\ UNCHANGED <<lf_vars, rr_vars, rc_vars, ir_point, ir_rect, ir_out>>

\* the handler, whole: it has no suspension point
get_feature(point) ==
    /\ gf_req' = Some(point)
    /\ gf_out' = Some(lookup(point))
    /\ UNCHANGED <<features, lf_vars, rr_vars, rc_vars, ir_point, ir_rect, ir_out>>

in_range_call(point, rect) ==
    /\ ir_point' = point
    /\ ir_rect' = rect
    /\ ir_out' = Some(in_range_outcome(point, rect))
    /\ UNCHANGED <<features, lf_vars, rr_vars, rc_vars, gf_req, gf_out>>

(***************************************************************************)
(* Specifications: one per call shape.                                     *)
(***************************************************************************)
ChatNext ==
    \/ \E s \in Sessions : route_chat(s)
    \/ \E s \in Sessions : \E item \in ChatItems(s, Len(rc_in[s]) + 1) : rc_next(s, item)
    \/ \E s \in Sessions : rc_end(s)
    \/ \E s \in Sessions : rc_lock(s)
    \/ \E s \in Sessions : rc_yield(s)
    \/ \E s \in Sessions : rc_unlock(s)

ChatInit ==
    /\ features = ChatCatalog
    /\ lf_Init
    /\ rr_Init
    /\ rc_Init
    /\ pf_Init

SpecChat == ChatInit /\ [][ChatNext]_vars

\* the chat with its transport: stalled clients and cancelled calls
ChatEnvNext ==
    \/ ChatNext
    \/ \E s \in Sessions : client_stall(s)
    \/ \E s \in Sessions : rc_cancel(s)

SpecChatEnv == ChatInit /\ [][ChatEnvNext]_vars

\* the runtime polls every stream whose client takes items, and the Lock
\* serves its waiters in turn
ChatFairness ==
    \A s \in Sessions :
        /\ WF_vars(rc_yield(s))
        /\ WF_vars(rc_unlock(s))
        /\ SF_vars(rc_lock(s))

SpecChatLive == ChatInit /\ [][ChatEnvNext]_vars /\ ChatFairness

RecordNext ==
    \/ \E r \in Recorders : record_route(r)
    \/ \E r \in Recorders, item \in RouteItems : rr_next(r, item)
    \/ \E r \in Recorders, secs \in 0..MaxElapsed : rr_end(r, secs)

RecordInit ==
    /\ features \in RouteCatalogs
    /\ lf_Init
    /\ rr_Init
    /\ rc_Init
    /\ pf_Init

SpecRecord == RecordInit /\ [][RecordNext]_vars

ListNext ==
    \/ \E rect \in ScanRectangles : list_features(rect)
    \/ thread_scan
    \/ thread_done
    \/ rx_recv
    \/ rx_end

ListInit ==
    /\ features \in ScanCatalogs
    /\ lf_Init
    /\ rr_Init
    /\ rc_Init
    /\ pf_Init

SpecList == ListInit /\ [][ListNext]_vars

LookupNext == \E point \in Points : get_feature(point)

LookupInit ==
    /\ features \in LookupCatalogs
    /\ lf_Init
    /\ rr_Init
    /\ rc_Init
    /\ pf_Init

SpecLookup == LookupInit /\ [][LookupNext]_vars

RangeNext == \E point \in RangePoints, rect \in RangeRectangles : in_range_call(point, rect)

RangeInit ==
    /\ features = ChatCatalog
    /\ lf_Init
    /\ rr_Init
    /\ rc_Init
    /\ pf_Init

SpecRange == RangeInit /\ [][RangeNext]_vars

(***************************************************************************)
(* The whole service: calls of every shape running concurrently over one   *)
(* catalog and one note map.                                               *)
(***************************************************************************)
Init ==
    /\ features \in RouteCatalogs
    /\ lf_Init
    /\ rr_Init
    /\ rc_Init
    /\ pf_Init

Next == LookupNext \/ ListNext \/ RecordNext \/ ChatNext

Spec == Init /\ [][Next]_vars

\* The whole service under a small load: a lookup, a scan, route recordings
\* and chat sessions interleaved step by step over one catalog.
ServiceCatalogs == {ChatCatalog, Catalog(<<Some(Point(0, 0)), Some(Point(0, 0))>>)}

ServicePoints == {Point(0, 0)}

ServiceRectangles == {Rectangle(Some(Point(0, 0)), Some(Point(CORD_FACTOR, CORD_FACTOR)))}

ServiceRouteItems == {Ok(Point(0, 0)), Ok(Point(0, CORD_FACTOR)), Err("Cancelled")}

ServiceChatItems(s, k) == {Ok(RouteNote(Some(Point(0, 0)), <<s, k>>))}

ServiceLookupNext == \E point \in ServicePoints : get_feature(point)

ServiceListNext ==
    \/ \E rect \in ServiceRectangles : list_features(rect)
    \/ thread_scan
    \/ thread_done
    \/ rx_recv
    \/ rx_end

ServiceRecordNext ==
    \/ \E r \in Recorders : record_route(r)
    \/ \E r \in Recorders, item \in ServiceRouteItems :
          /\ TotalLen(rr_in, Recorders) < MaxServicePoints
          /\ rr_next(r, item)
    \/ \E r \in Recorders, secs \in 0..MaxElapsed : rr_end(r, secs)

ServiceChatNext ==
    \/ \E s \in Sessions : route_chat(s)
    \/ \E s \in Sessions : \E item \in ServiceChatItems(s, Len(rc_in[s]) + 1) :
          /\ TotalLen(rc_in, Sessions) < MaxServiceNotes
          /\ rc_next(s, item)
    \/ \E s \in Sessions : rc_end(s)
    \/ \E s \in Sessions : rc_lock(s)
    \/ \E s \in Sessions : rc_yield(s)
    \/ \E s \in Sessions : rc_unlock(s)

ServiceNext == ServiceLookupNext \/ ServiceListNext \/ ServiceRecordNext \/ ServiceChatNext

ServiceInit ==
    /\ features \in ServiceCatalogs
    /\ lf_Init
    /\ rr_Init
    /\ rc_Init
    /\ pf_Init

SpecService == ServiceInit /\ [][ServiceNext]_vars

(***************************************************************************)
(* Properties.                                                             *)
(***************************************************************************)
IsPrefix(a, b) == Len(a) <= Len(b) /\ SubSeq(b, 1, Len(a)) = a

Last(q) == q[Len(q)]

\* the list the map holds for a location, empty when it holds none
ListAt(location) == IF location \in DOMAIN notes THEN notes[location] ELSE << >>

\* the notes session s has pushed: its located inbound notes, but for the one
\* it is still waiting for the lock with
PushedNotes(s) ==
    {rc_in[s][k].value : k \in {j \in DOMAIN rc_in[s] :
        /\ rc_in[s][j].tag = "Ok"
        /\ rc_in[s][j].value.location # None
        /\ ~(rc_pc[s] = "lock" /\ j = Len(rc_in[s]))}}

\* the notes of the outbound stream of session s (an Err item can only end it)
OutNotes(s) ==
    LET oks == SelectSeq(rc_out[s], LAMBDA it : it.tag = "Ok")
    IN  [i \in 1..Len(oks) |-> oks[i].value]

\* the notes session s has emitted in response to its k-th inbound note
Replay(s, k) ==
    SubSeq(OutNotes(s), rc_mark[s][k] + 1,
           IF k < Len(rc_mark[s]) THEN rc_mark[s][k + 1] ELSE Len(OutNotes(s)))

\* session s has left the replay of its k-th inbound note
ReplayOver(s, k) == k < Len(rc_mark[s]) \/ rc_pc[s] # "yield"

\* C1: at every moment the list of each location holds exactly the notes the
\* sessions have appended to it, each exactly once: with N sessions having
\* appended one note each, N notes.
C1_NoAppendLostOrDuplicated ==
    \A l \in ChatPoints :
        LET list == ListAt(l)
            sent == {n \in UNION {PushedNotes(s) : s \in Sessions} : n.location = Some(l)}
        IN  /\ Len(list) = Cardinality(sent)
            /\ {list[i] : i \in DOMAIN list} = sent

\* every session has sent one note to the same location and all appends are over
C1_Witness ==
    \E l \in ChatPoints :
        /\ Len(ListAt(l)) = NumSessions
        /\ \A s \in Sessions :
            /\ Len(rc_in[s]) = 1
            /\ rc_in[s][1].tag = "Ok"
            /\ rc_in[s][1].value.location = Some(l)
            /\ rc_pc[s] = "next"

\* C2: the notes emitted in response to inbound note n are the list of n's
\* location as it stood right after n was appended: all of one location, n
\* last, nothing appended later; a replay under way is a prefix of it.
C2_ReplayIsListAfterAppend ==
    \A s \in Sessions : \A k \in DOMAIN rc_mark[s] :
        LET n == rc_in[s][k].value
            snap == rc_snap[s][k]
        IN  /\ Last(snap) = n
            /\ \A i \in DOMAIN snap : snap[i].location = n.location
            /\ IsPrefix(Replay(s, k), snap)
            /\ ReplayOver(s, k) => Replay(s, k) = snap

\* a finished replay that begins with another session's note, at a location
\* that has received a further note since
C2_Witness ==
    \E s \in Sessions : \E k \in DOMAIN rc_mark[s] :
        /\ ReplayOver(s, k)
        /\ Len(Replay(s, k)) >= 2
        /\ Replay(s, k)[1].message[1] # s
        /\ Len(ListAt(rc_in[s][k].value.location[1])) > Len(Replay(s, k))

\* C3: a session handles its inbound notes in arrival order, none skipped,
\* and has emitted the whole replay of note k, in list order, by the time it
\* has taken item k+1 from the inbound stream.
C3_ReplayBeforeNextInbound ==
    \A s \in Sessions :
        /\ Len(rc_mark[s]) <= Len(rc_in[s])
        /\ Len(rc_mark[s]) >= Len(rc_in[s]) - 1
        /\ \A k \in DOMAIN rc_mark[s] :
            /\ rc_in[s][k].tag = "Ok"
            /\ Last(rc_snap[s][k]) = rc_in[s][k].value
            /\ Len(rc_in[s]) > k =>
                /\ Len(Replay(s, k)) = Len(rc_snap[s][k])
                /\ \A i \in 1..Len(Replay(s, k)) : Replay(s, k)[i] = rc_snap[s][k][i]

\* a session that has taken a second inbound item after a replay of two notes
C3_Witness ==
    \E s \in Sessions :
        /\ Len(rc_in[s]) >= 2
        /\ Len(rc_mark[s]) >= 2
        /\ Len(Replay(s, 1)) >= 2
        /\ Len(Replay(s, 2)) >= 1

\* the box test of the range scan: corners in either order, edges included
InsideBox(point, rect) ==
    LET lo == rect.lo[1]
        hi == rect.hi[1]
    IN  /\ Min(lo.longitude, hi.longitude) <= point.longitude
        /\ point.longitude <= Max(lo.longitude, hi.longitude)
        /\ Min(lo.latitude, hi.latitude) <= point.latitude
        /\ point.latitude <= Max(lo.latitude, hi.latitude)

\* the features of the catalog located inside the box, in catalog order
scan_range(catalog, rect) ==
    IF rect.lo = None \/ rect.hi = None THEN << >>
    ELSE SelectSeq(catalog, LAMBDA f : f.location # None /\ InsideBox(f.location[1], rect))

AllLocated == \A i \in DOMAIN features : features[i].location # None

\* C4: with every feature located and both corners given, the response stream
\* closes only after every matching feature was delivered, however many match
\* and however slowly the consumer takes them.
C4_FullBufferDropsNothing ==
    (rx_closed /\ AllLocated /\ request.lo # None /\ request.hi # None)
        => rx_out = scan_range(features, request)

\* C5: the features delivered so far are a prefix of the catalog-order list
\* of the features located inside the box.
C5_DeliveredIsPrefixOfMatches == IsPrefix(rx_out, scan_range(features, request))

\* two features delivered, a feature outside the box passed over between them
C5_Witness ==
    /\ Len(rx_out) >= 2
    /\ \E i \in DOMAIN features :
        /\ rx_out[1].name < i
        /\ i < rx_out[2].name
        /\ features[i].location # None
        /\ ~InsideBox(features[i].location[1], request)

\* C6: a feature without a location is passed over: when the stream closes
\* after a scan that never filled the buffer, every matching feature was
\* delivered.
C6_FeatureWithoutLocationSkipped ==
    (rx_closed /\ Len(scan_range(features, request)) <= ChannelCapacity
        /\ request.lo # None /\ request.hi # None)
        => rx_out = scan_range(features, request)

\* C7: a session whose last inbound item is a note without a location has
\* ended with an error item on its outbound stream, and has not panicked.
C7_MissingLocationIsSessionError ==
    \A s \in Sessions :
        (/\ rc_in[s] # << >>
         /\ Last(rc_in[s]).tag = "Ok"
         /\ Last(rc_in[s]).value.location = None)
            => /\ rc_pc[s] = "closed"
               /\ rc_out[s] # << >>
               /\ Last(rc_out[s]).tag = "Err"

\* C8: a route recording returns at most once, and has returned exactly when
\* it is over; an Err item is the last item taken and ends the call with that
\* error; a call that ended without one returned a summary.
C8_ExactlyOneOutcome ==
    \A r \in Recorders :
        /\ Len(rr_out[r]) = (IF rr_pc[r] = "returned" THEN 1 ELSE 0)
        /\ \A k \in DOMAIN rr_in[r] : rr_in[r][k].tag = "Err" => k = Len(rr_in[r])
        /\ (rr_in[r] # << >> /\ Last(rr_in[r]).tag = "Err")
            => rr_out[r] = << Err(Last(rr_in[r]).status) >>
        /\ (rr_pc[r] = "returned" /\ (rr_in[r] = << >> \/ Last(rr_in[r]).tag = "Ok"))
            => rr_out[r][1].tag = "Ok"

\* a recording aborted by an Err item after two points
C8_Witness ==
    \E r \in Recorders :
        /\ rr_pc[r] = "returned"
        /\ Len(rr_in[r]) = 3
        /\ Last(rr_in[r]).tag = "Err"

\* C9: the summary a route recording returns counts the points it received.
C9_PointCountIsNumberOfPoints ==
    \A r \in Recorders :
        (rr_out[r] # << >> /\ rr_out[r][1].tag = "Ok")
            => rr_out[r][1].value.point_count = Len(rr_in[r])

\* a summary returned after two points
C9_Witness ==
    \E r \in Recorders :
        /\ rr_out[r] # << >>
        /\ rr_out[r][1].tag = "Ok"
        /\ Len(rr_in[r]) = 2

\* the inbound points of a sequence of Ok items at which a feature is located
MatchingPoints(items) ==
    {k \in DOMAIN items : \E i \in DOMAIN features : features[i].location = Some(items[k].value)}

\* the pairs of an inbound point and a feature located at it
MatchingPairs(items) ==
    {<<k, i>> \in (DOMAIN items) \X (DOMAIN features) : features[i].location = Some(items[k].value)}

\* C10 as stated: feature_count is the number of inbound points at which at
\* least one feature is located.
C10_FeatureCountIsMatchingPoints ==
    \A r \in Recorders :
        (rr_out[r] # << >> /\ rr_out[r][1].tag = "Ok")
            => rr_out[r][1].value.feature_count = Cardinality(MatchingPoints(rr_in[r]))

\* C10 amended: feature_count is the number of pairs of an inbound point and
\* a cataloged feature located at it.
C10_FeatureCountIsMatchingPairs ==
    \A r \in Recorders :
        (rr_out[r] # << >> /\ rr_out[r][1].tag = "Ok")
            => rr_out[r][1].value.feature_count = Cardinality(MatchingPairs(rr_in[r]))

\* a summary whose one point lies at the location of two features
C10_Witness ==
    \E r \in Recorders :
        /\ rr_out[r] # << >>
        /\ rr_out[r][1].tag = "Ok"
        /\ Len(rr_in[r]) = 1
        /\ rr_out[r][1].value.feature_count = 2

\* the sum of the distances between the consecutive points of Ok items
RECURSIVE PathLength(_)
PathLength(items) ==
    IF Len(items) < 2 THEN 0
    ELSE PathLength(SubSeq(items, 1, Len(items) - 1))
            + calc_distance(items[Len(items) - 1].value, items[Len(items)].value)

\* C11: the distance of a returned summary is the sum of the distances
\* between each inbound point and the one right before it; the first point
\* adds nothing.
C11_DistanceIsSumOfLegs ==
    \A r \in Recorders :
        (rr_out[r] # << >> /\ rr_out[r][1].tag = "Ok")
            => rr_out[r][1].value.distance = PathLength(rr_in[r])

\* a summary over three points, the first two equal, the third elsewhere
C11_Witness ==
    \E r \in Recorders :
        /\ rr_out[r] # << >>
        /\ rr_out[r][1].tag = "Ok"
        /\ Len(rr_in[r]) = 3
        /\ rr_in[r][1] = rr_in[r][2]
        /\ rr_in[r][2] # rr_in[r][3]
        /\ rr_out[r][1].value.distance > 0

\* C12: the lookup answers Ok with the first feature, in catalog order, whose
\* location has the latitude and the longitude of the query point, and with
\* the empty feature when there is none.
C12_LookupReturnsFirstMatch ==
    gf_out # None =>
        LET point == gf_req[1]
            matches == {i \in DOMAIN features :
                           /\ features[i].location # None
                           /\ features[i].location[1].latitude = point.latitude
                           /\ features[i].location[1].longitude = point.longitude}
        IN  /\ gf_out[1].tag = "Ok"
            /\ IF matches = {}
                 THEN gf_out[1].value = [name |-> 0, location |-> << >>]
                 ELSE \E i \in matches :
                        /\ \A j \in matches : i <= j
                        /\ gf_out[1].value = features[i]

\* a lookup answered with the first of two matches, behind a feature that
\* shares only the latitude of the query point
C12_Witness ==
    /\ gf_out # None
    /\ Len(features) = 3
    /\ features[1].location # None
    /\ features[1].location[1].latitude = gf_req[1].latitude
    /\ features[1].location[1].longitude # gf_req[1].longitude
    /\ features[2].location = gf_req
    /\ features[3].location = gf_req
    /\ gf_out[1].value.name = 2

\* the point lies in the closed box of the corners and on one of its edges
OnEdge(point, rect) ==
    LET lo == rect.lo[1]
        hi == rect.hi[1]
        latIn == Min(lo.latitude, hi.latitude) <= point.latitude
                    /\ point.latitude <= Max(lo.latitude, hi.latitude)
        lngIn == Min(lo.longitude, hi.longitude) <= point.longitude
                    /\ point.longitude <= Max(lo.longitude, hi.longitude)
    IN  \/ point.latitude \in {lo.latitude, hi.latitude} /\ lngIn
        \/ point.longitude \in {lo.longitude, hi.longitude} /\ latIn

\* C13: with both corners given, in_range answers as it does with the
\* corners swapped, and answers true for a point on an edge of the box.
C13_InRangeSwapAndEdges ==
    (ir_out # None /\ ir_rect.lo # None /\ ir_rect.hi # None) =>
        /\ ~ir_out[1].panicked
        /\ ir_out[1].value = in_range(ir_point, Rectangle(ir_rect.hi, ir_rect.lo))
        /\ OnEdge(ir_point, ir_rect) => ir_out[1].value

\* a point on an edge of a box given with lo above and to the right of hi
C13_Witness ==
    /\ ir_out # None
    /\ ir_rect.lo # None
    /\ ir_rect.hi # None
    /\ ir_rect.lo[1].latitude > ir_rect.hi[1].latitude
    /\ ir_rect.lo[1].longitude > ir_rect.hi[1].longitude
    /\ ir_point.latitude = ir_rect.lo[1].latitude
    /\ ir_point.longitude < ir_rect.lo[1].longitude
    /\ ir_point.longitude > ir_rect.hi[1].longitude
    /\ ir_out[1].value

\* session s has emitted, whole, the replay of every note it has pushed
AllReplaysEmitted(s) == \A k \in DOMAIN rc_mark[s] : Replay(s, k) = rc_snap[s][k]

\* an Err item is the last inbound item of its session, is the last outbound
\* item too, and has closed the session; a closed session holds no lock and
\* has emitted its replays whole
C14_ClosedState ==
    \A s \in Sessions :
        /\ \A k \in DOMAIN rc_in[s] : rc_in[s][k].tag = "Err" =>
            /\ k = Len(rc_in[s])
            /\ rc_pc[s] = "closed"
            /\ rc_out[s] # << >>
            /\ Last(rc_out[s]) = Err(rc_in[s][k].status)
            /\ Len(OutNotes(s)) = Len(rc_out[s]) - 1
        /\ rc_pc[s] = "closed" =>
            /\ lock # Some(s)
            /\ AllReplaysEmitted(s)

\* a closed session stays closed and emits nothing more
C14_ClosedStep ==
    \A s \in Sessions :
        rc_pc[s] = "closed" => (rc_pc'[s] = "closed" /\ rc_out'[s] = rc_out[s])

\* C14: the outbound stream closes when the inbound stream ends, which the
\* session sees only after the replay of its last note, or yields an error,
\* which is then its last item; nothing is emitted after the close.
C14_OutboundClosesWithInbound == []C14_ClosedState /\ [][C14_ClosedStep]_vars

\* a session closed by an inbound error after a replay of two notes
C14_Witness ==
    \E s \in Sessions :
        /\ rc_pc[s] = "closed"
        /\ Len(rc_in[s]) = 2
        /\ Last(rc_in[s]).tag = "Err"
        /\ Len(rc_out[s]) = 3

\* C15: a session that waits for the lock with an inbound note gets to
\* append it and to emit its replay, unless its own client stalls or its own
\* call is cancelled, whatever the other sessions and their clients do.
C15_OtherSessionsProgress ==
    \A s \in Sessions :
        (rc_pc[s] = "lock") ~> (rc_pc[s] \in {"next", "stalled", "cancelled"})

\* the cancelled sessions hold no lock, and the lock is free when no session
\* is inside a replay
C16_CancelledState ==
    /\ \A s \in Sessions : rc_pc[s] = "cancelled" => lock # Some(s)
    /\ (\A s \in Sessions : rc_pc[s] \notin {"yield", "stalled"}) => lock = None

\* the cancellation leaves the map and the outbound stream as they are, and a
\* cancelled session does nothing more
C16_CancelledStep ==
    \A s \in Sessions :
        /\ (rc_pc[s] # "cancelled" /\ rc_pc'[s] = "cancelled") =>
            (notes' = notes /\ rc_out'[s] = rc_out[s])
        /\ rc_pc[s] = "cancelled" =>
            /\ rc_pc'[s] = "cancelled"
            /\ rc_out'[s] = rc_out[s]
            /\ rc_mark'[s] = rc_mark[s]

\* C16: a cancelled chat emits nothing more, leaves no lock held and leaves
\* the map as it was at the cancellation.
C16_CancelLeavesHubIntact == []C16_CancelledState /\ [][C16_CancelledStep]_vars

\* a chat cancelled in the middle of a replay of two notes, the lock free again
C16_Witness ==
    \E s \in Sessions :
        /\ rc_pc[s] = "cancelled"
        /\ rc_mark[s] # << >>
        /\ Len(Last(rc_snap[s])) = 2
        /\ Len(OutNotes(s)) - Last(rc_mark[s]) = 1
        /\ lock = None

\* every list of the map is a prefix of what it is after the step
C18_AppendOnlyStep ==
    \A l \in DOMAIN notes : l \in DOMAIN notes' /\ IsPrefix(notes[l], notes'[l])

\* C18: the list of a location only grows at its end, and a location of the
\* map never has an empty list.
C18_HubAppendOnly ==
    [](\A l \in DOMAIN notes : notes[l] # << >>) /\ [][C18_AppendOnlyStep]_vars

\* a list of two notes, one of the sessions cancelled, another ended by an error
C18_Witness ==
    /\ \E l \in DOMAIN notes : Len(notes[l]) >= 2
    /\ \E s \in Sessions : rc_pc[s] = "cancelled"
    /\ \E s \in Sessions : rc_in[s] # << >> /\ Last(rc_in[s]).tag = "Err"

\* the sessions inside a replay, their guard alive
Holders == {s \in Sessions : rc_pc[s] \in {"yield", "stalled"}}

\* at most one session is inside a replay, and it is the one the lock names
C19_LockState ==
    /\ Cardinality(Holders) <= 1
    /\ \A s \in Sessions : lock = Some(s) <=> s \in Holders

\* the map changes only in the step in which a session with an inbound note
\* acquires the lock, and a note goes out only from the session holding it
C19_LockStep ==
    /\ notes' # notes =>
        \E s \in Sessions : lock = None /\ lock' = Some(s) /\ rc_pc[s] = "lock"
    /\ \A s \in Sessions :
        Len(OutNotes(s))' > Len(OutNotes(s)) => (lock = Some(s) /\ lock' = Some(s))

\* C19: one holder at most; the map is written and read under the lock; the
\* lock is held from the arrival of a note to the end of its replay and never
\* while the session waits for its next inbound note.
C19_HubAccessUnderLock == []C19_LockState /\ [][C19_LockStep]_vars

\* a session emitting a replay while another waits for the lock with a note
C19_Witness ==
    \E s, t \in Sessions :
        /\ rc_pc[s] = "yield"
        /\ rc_i[s] = 2
        /\ rc_pc[t] = "lock"

\* the counted fields of a summary as a function of the inbound items of its
\* own session and of the catalog
SummaryOf(items) ==
    [point_count |-> Len(items),
     feature_count |-> Cardinality(MatchingPairs(items)),
     distance |-> PathLength(items)]

Counted(s) ==
    [point_count |-> s.point_count, feature_count |-> s.feature_count, distance |-> s.distance]

C17_OwnInputState ==
    \A r \in Recorders :
        /\ rr_pc[r] = "streaming" => Counted(summary[r]) = SummaryOf(rr_in[r])
        /\ (rr_out[r] # << >> /\ rr_out[r][1].tag = "Ok")
              => Counted(rr_out[r][1].value) = SummaryOf(rr_in[r])

C17_OtherStep ==
    \A r \in Recorders :
        (rr_pc'[r] = rr_pc[r] /\ rr_in'[r] = rr_in[r])
            => /\ summary'[r] = summary[r]
               /\ last_point'[r] = last_point[r]
               /\ rr_out'[r] = rr_out[r]

C20_CatalogStep == features' = features

C20_HubStep ==
    /\ (ServiceLookupNext \/ ServiceListNext \/ ServiceRecordNext) => notes' = notes
    /\ notes' # notes
          => /\ \E s \in Sessions : rc_pc[s] = "lock" /\ lock' = Some(s)
             /\ UNCHANGED <<lf_vars, rr_vars, pf_vars>>

\* C20: no step changes the catalog; a step of get_feature, list_features or
\* record_route leaves the note map unchanged, and a step that changes the
\* note map is the step of a chat session that acquires the lock.
C20_HubChangedOnlyByChat == [][C20_CatalogStep /\ C20_HubStep]_vars

\* the note map holds a note while a lookup was answered, a scan delivered a
\* feature and a route recording returned
C20_Witness ==
    /\ notes # << >>
    /\ gf_out # None
    /\ rx_out # << >>
    /\ \E r \in Recorders : rr_out[r] # << >>


====
